---- MODULE Spec2Model ----
(***************************************************************************)
(* State-machine model of backup_script.py: main() lists the monday.com    *)
(* boards, exports each board with get_board_data() and archives the       *)
(* result as a CSV file through upload_to_gdrive().                        *)
(*                                                                         *)
(* Remote calls are modelled by the kind of response they produce:         *)
(*   "transport"  requests.post raises a ConnectionError/Timeout           *)
(*   "http"       raise_for_status() raises HTTPError                      *)
(*   "errors"     HTTP 200 whose JSON body is {"errors": [...]} (no data)  *)
(*   "malformed"  HTTP 200 whose JSON body has neither an "errors" key nor *)
(*                the queried data, such as {"error_message": ...} or      *)
(*                {"data": {"boards": []}}                                 *)
(*   "ok"         HTTP 200 with the queried data                           *)
(* "transport" and "http" are requests.exceptions.RequestException; the    *)
(* KeyError, IndexError or TypeError raised by indexing an "errors" or a   *)
(* "malformed" body with ['data']['boards'][0]... is not.                  *)
(***************************************************************************)
EXTENDS Integers, Sequences, FiniteSets, TLC

\* ---------------------------------------------------------------- bounds
MaxBoards == 2
MaxPages == 3

\* ---------------------------------------------------------------- data
FailKinds == {"transport", "http", "errors", "malformed"}
RequestExceptions == {"transport", "http"}

Board1 == [id |-> "101", name |-> <<"S", "/", "Q">>]
Board2 == [id |-> "102", name |-> <<"S", "Q">>]
Board3 == [id |-> "103", name |-> <<"H", "R", "?">>]
BoardPool == {Board1, Board2, Board3}

Item1 == [id |-> "1", name |-> "Deal A",
          column_values |-> << [id |-> "status", text |-> "Won"] >>]
Item2 == [id |-> "2", name |-> "Deal B", column_values |-> << >>]
Item3 == [id |-> "3", name |-> "Deal C",
          column_values |-> << [id |-> "status", text |-> "Lost"],
                               [id |-> "status2", text |-> "Open"] >>]
PagePool == { << >>, <<Item1>>, <<Item2, Item3>> }
Cursors == {"None", "cur"}

ColumnsPool == { << >>,
                 << [id |-> "status", title |-> "Status"] >>,
                 << [id |-> "status", title |-> "Status"],
                    [id |-> "status2", title |-> "Status"] >> }

\* board lists the API can return: at most MaxBoards distinct boards
BoardLists ==
    { s \in UNION { [1..k -> BoardPool] : k \in 0..MaxBoards } :
        \A i, j \in DOMAIN s : i # j => s[i] # s[j] }

\* ---------------------------------------------------------------- dict helpers
\* A Python dict is a sequence of <<key, value>> pairs in insertion order.
RECURSIVE DictIndex(_, _)
DictIndex(d, k) ==
    IF d = << >> THEN 0
    ELSE IF d[Len(d)][1] = k THEN Len(d)
    ELSE DictIndex(SubSeq(d, 1, Len(d) - 1), k)

DictHas(d, k) == DictIndex(d, k) # 0

DictGet(d, k) == d[DictIndex(d, k)][2]

\* d[k] = v : overwrite in place when the key exists, append otherwise
DictSet(d, k, v) ==
    IF DictHas(d, k)
    THEN [d EXCEPT ![DictIndex(d, k)] = <<k, v>>]
    ELSE Append(d, <<k, v>>)

\* column_map = {c['id']: c['title'] for c in columns_data}
RECURSIVE ColumnMap(_)
ColumnMap(columns_data) ==
    IF columns_data = << >> THEN << >>
    ELSE LET c == columns_data[Len(columns_data)]
         IN DictSet(ColumnMap(SubSeq(columns_data, 1, Len(columns_data) - 1)),
                    c.id, c.title)

\* column_map.get(col_id, col_id)
ColumnTitle(column_map, col_id) ==
    IF DictHas(column_map, col_id) THEN DictGet(column_map, col_id) ELSE col_id

\* the inner loop over item['column_values']
RECURSIVE RowWithColumns(_, _, _)
RowWithColumns(row, column_values, column_map) ==
    IF column_values = << >> THEN row
    ELSE LET col_val == Head(column_values)
         IN RowWithColumns(
                DictSet(row, ColumnTitle(column_map, col_val.id), col_val.text),
                Tail(column_values), column_map)

ItemRow(item, column_map) ==
    RowWithColumns(<< <<"Item ID", item.id>>, <<"Item Name", item.name>> >>,
                   item.column_values, column_map)

\* processed_rows: one row per item, in order
ProcessedRows(items_data, column_map) ==
    [i \in 1..Len(items_data) |-> ItemRow(items_data[i], column_map)]

\* re.sub(r'[\\/*?:"<>|]', "", board_name)
IllegalChars == {"\\", "/", "*", "?", ":", "\"", "<", ">", "|"}

SafeBoardName(board_name) == SelectSeq(board_name, LAMBDA ch : ch \notin IllegalChars)

Filename(board_name) == SafeBoardName(board_name) \o <<".", "c", "s", "v">>

\* board_data values: None, or a list of rows
None == [isNone |-> TRUE, rows |-> << >>]
Rows(r) == [isNone |-> FALSE, rows |-> r]

\* variant: the branch is taken for every result that is not None
Truthy_NotNone(bd) == ~bd.isNone

\* truth value of board_data in `if board_data:`
Truthy(bd) == ~bd.isNone /\ Len(bd.rows) > 0

\* ---------------------------------------------------------------- state
VARIABLES
    pc,             \* position of main(): "start", "auth", "list", "loop",
                    \* "columns", "page", "check", "write", "upload",
                    \* "remove", "iter_end", "done", "crashed"
    env,            \* which of MONDAY_API_KEY / GDRIVE_FOLDER_ID are set
    boards,         \* the list returned by get_all_boards()
    idx,            \* index in boards of the board of the current iteration
    board_id,       \* main: board['id']
    board_name,     \* main: board['name']
    column_map,     \* get_board_data: id -> title dict
    items_data,     \* get_board_data: items accumulated so far
    page,           \* get_board_data: page index of the next request
    board_data,     \* main: what get_board_data returned
    files,          \* names of the CSV files on the local disk
    gdrive,         \* names of the files created in the Drive folder, in order
    printed,        \* lines printed since the current iteration began
    exporterCalls,  \* board ids get_board_data was called with, in order
    requests,       \* requests of the current get_board_data call, in order
    pages,          \* successful item pages received by the current call
    listOutcome,    \* kind of the answer to the board-list request
    colOutcome,     \* kind of the answer to the current column request
    pageOutcome,    \* kind of the last item-page answer of the current call
    uploadOutcome,  \* outcome of the upload of the current iteration
    steps           \* archive steps executed in the current iteration

vars == <<pc, env, boards, idx, board_id, board_name, column_map, items_data,
          page, board_data, files, gdrive, printed, exporterCalls, requests,
          pages, listOutcome, colOutcome, pageOutcome, uploadOutcome, steps>>

exportVars == <<column_map, items_data, page, requests, pages, colOutcome,
                pageOutcome>>
archiveVars == <<files, gdrive, uploadOutcome, steps>>
runVars == <<env, boards, listOutcome>>
iterVars == <<idx, board_id, board_name, exporterCalls>>

Init ==
    /\ pc = "start"
    /\ env \in [apiKey : BOOLEAN, folderId : BOOLEAN]
    /\ boards = << >>
    /\ idx = 1
    /\ board_id = "none"
    /\ board_name = << >>
    /\ column_map = << >>
    /\ items_data = << >>
    /\ page = 1
    /\ board_data = None
    /\ files = {}
    /\ gdrive = << >>
    /\ printed = << >>
    /\ exporterCalls = << >>
    /\ requests = << >>
    /\ pages = << >>
    /\ listOutcome = "none"
    /\ colOutcome = "none"
    /\ pageOutcome = "none"
    /\ uploadOutcome = "none"
    /\ steps = << >>

\* ---------------------------------------------------------------- responses
ListResponses ==
    { [kind |-> k, boards |-> << >>] : k \in FailKinds }
    \cup { [kind |-> "ok", boards |-> b] : b \in BoardLists }

ColumnResponses ==
    { [kind |-> k, columns |-> << >>] : k \in FailKinds }
    \cup { [kind |-> "ok", columns |-> c] : c \in ColumnsPool }

\* a board has at most MaxPages pages: page MaxPages is never followed
PageResponses(p) ==
    { [kind |-> k, items |-> << >>, cursor |-> "None"] : k \in FailKinds }
    \cup { r \in [kind : {"ok"}, items : PagePool, cursor : Cursors] :
             p >= MaxPages => (r.items = << >> \/ r.cursor = "None") }

\* ---------------------------------------------------------------- handlers
\* get_all_boards(): the try/except around the request
ListResult(resp) ==
    IF resp.kind \in RequestExceptions
    THEN [ctl |-> "return", boards |-> << >>, msg |-> "boards_error"]
    ELSE IF resp.kind \in {"errors", "malformed"}
    THEN [ctl |-> "raise", boards |-> << >>, msg |-> "KeyError"]
    ELSE [ctl |-> "return", boards |-> resp.boards, msg |-> "found_boards"]

\* variant: an error payload is read as a board without columns
ColumnsResult_IgnoresErrors(resp) ==
    IF resp.kind \in RequestExceptions
    THEN [ctl |-> "return_none", column_map |-> << >>]
    ELSE [ctl |-> "ok", column_map |-> ColumnMap(resp.columns)]

\* get_board_data(): the column request, `except Exception`
ColumnsResult(resp) ==
    IF resp.kind = "ok"
    THEN [ctl |-> "ok", column_map |-> ColumnMap(resp.columns)]
    ELSE [ctl |-> "return_none", column_map |-> << >>]

\* variant: a request error leaves the loop with break
PageResult_BreakOnRequestError(resp, items, p) ==
    IF resp.kind \in RequestExceptions \cup {"errors"}
    THEN [ctl |-> "break", items_data |-> items, page |-> p]
    ELSE IF resp.kind = "malformed"
    THEN [ctl |-> "raise", items_data |-> items, page |-> p]
    ELSE IF resp.items = << >>
    THEN [ctl |-> "break", items_data |-> items, page |-> p]
    ELSE IF resp.cursor = "None"
    THEN [ctl |-> "break", items_data |-> items \o resp.items, page |-> p]
    ELSE [ctl |-> "continue", items_data |-> items \o resp.items, page |-> p + 1]

\* variant: the cursor is tested before the page is accumulated
PageResult_CursorFirst(resp, items, p) ==
    IF resp.kind \in RequestExceptions
    THEN [ctl |-> "return_none", items_data |-> items, page |-> p]
    ELSE IF resp.kind = "errors"
    THEN [ctl |-> "break", items_data |-> items, page |-> p]
    ELSE IF resp.kind = "malformed"
    THEN [ctl |-> "raise", items_data |-> items, page |-> p]
    ELSE IF resp.items = << >> \/ resp.cursor = "None"
    THEN [ctl |-> "break", items_data |-> items, page |-> p]
    ELSE [ctl |-> "continue", items_data |-> items \o resp.items, page |-> p + 1]

\* get_board_data(): one turn of the `while True` loop
PageResult(resp, items, p) ==
    IF resp.kind \in RequestExceptions
    THEN [ctl |-> "return_none", items_data |-> items, page |-> p]
    ELSE IF resp.kind = "errors"
    THEN [ctl |-> "break", items_data |-> items, page |-> p]
    ELSE IF resp.kind = "malformed"
    THEN [ctl |-> "raise", items_data |-> items, page |-> p]
    ELSE IF resp.items = << >>
    THEN [ctl |-> "break", items_data |-> items, page |-> p]
    ELSE IF resp.cursor = "None"
    THEN [ctl |-> "break", items_data |-> items \o resp.items, page |-> p]
    ELSE [ctl |-> "continue", items_data |-> items \o resp.items, page |-> p + 1]

\* ---------------------------------------------------------------- actions
\* main(): the environment-variable check
CheckConfig ==
    /\ pc = "start"
    /\ IF env.apiKey /\ env.folderId
       THEN /\ pc' = "auth"
            /\ UNCHANGED printed
       ELSE /\ pc' = "done"
            /\ printed' = Append(printed, "config_error")
    /\ UNCHANGED <<runVars, iterVars, exportVars, archiveVars, board_data>>

\* main(): google.auth.default + build, `except Exception`
Authenticate ==
    /\ pc = "auth"
    /\ \E ok \in BOOLEAN :
         IF ok
         THEN /\ pc' = "list"
              /\ UNCHANGED printed
         ELSE /\ pc' = "done"
              /\ printed' = Append(printed, "auth_error")
    /\ UNCHANGED <<runVars, iterVars, exportVars, archiveVars, board_data>>

\* main(): boards = get_all_boards(); if not boards: return
GetAllBoards ==
    /\ pc = "list"
    /\ \E resp \in ListResponses :
         LET r == ListResult(resp) IN
         /\ listOutcome' = resp.kind
         /\ boards' = r.boards
         /\ IF r.ctl = "raise"
            THEN /\ pc' = "crashed"
                 /\ UNCHANGED printed
            ELSE IF r.boards = << >>
            THEN /\ pc' = "done"
                 /\ printed' = printed \o <<r.msg, "no_boards">>
            ELSE /\ pc' = "loop"
                 /\ printed' = Append(printed, r.msg)
    /\ UNCHANGED <<env, iterVars, exportVars, archiveVars, board_data>>

\* main(): `for board in boards:` takes the next board and calls get_board_data
BeginBoard ==
    /\ pc = "loop"
    /\ idx <= Len(boards)
    /\ board_id' = boards[idx].id
    /\ board_name' = boards[idx].name
    /\ printed' = <<"processing">>
    /\ exporterCalls' = Append(exporterCalls, boards[idx].id)
    /\ column_map' = << >>
    /\ items_data' = << >>
    /\ page' = 1
    /\ requests' = << >>
    /\ pages' = << >>
    /\ colOutcome' = "none"
    /\ pageOutcome' = "none"
    /\ uploadOutcome' = "none"
    /\ steps' = << >>
    /\ pc' = "columns"
    /\ UNCHANGED <<runVars, idx, board_data, files, gdrive>>

\* main(): the for loop is exhausted
FinishRun ==
    /\ pc = "loop"
    /\ idx > Len(boards)
    /\ pc' = "done"
    /\ UNCHANGED <<runVars, iterVars, exportVars, archiveVars, board_data,
                   printed>>

\* get_board_data(): the column request
FetchColumns ==
    /\ pc = "columns"
    /\ \E resp \in ColumnResponses :
         LET r == ColumnsResult(resp) IN
         /\ colOutcome' = resp.kind
         /\ requests' = Append(requests, [kind |-> "columns", page |-> 0])
         /\ column_map' = r.column_map
         /\ IF r.ctl = "ok"
            THEN /\ pc' = "page"
                 /\ UNCHANGED <<board_data, printed>>
            ELSE /\ pc' = "check"
                 /\ board_data' = None
                 /\ printed' = Append(printed, "columns_error")
    /\ UNCHANGED <<runVars, iterVars, archiveVars, items_data, page, pages,
                   pageOutcome>>

\* get_board_data(): one item-page request; on leaving the loop, the
\* flattening of items_data into processed_rows and the return.  An
\* exception that is not a RequestException leaves get_board_data and main.
FetchItemsPage ==
    /\ pc = "page"
    /\ \E resp \in PageResponses(page) :
         LET r == PageResult(resp, items_data, page) IN
         /\ pageOutcome' = resp.kind
         /\ requests' = Append(requests, [kind |-> "items", page |-> page])
         /\ pages' = IF resp.kind = "ok"
                     THEN Append(pages, [items |-> resp.items,
                                         cursor |-> resp.cursor])
                     ELSE pages
         /\ items_data' = r.items_data
         /\ page' = r.page
         /\ printed' = IF resp.kind = "errors" THEN Append(printed, "api_error")
                       ELSE IF resp.kind \in RequestExceptions
                       THEN Append(printed, "items_error")
                       ELSE printed
         /\ IF r.ctl = "continue"
            THEN /\ pc' = "page"
                 /\ UNCHANGED board_data
            ELSE IF r.ctl = "break"
            THEN /\ pc' = "check"
                 /\ board_data' = Rows(ProcessedRows(r.items_data, column_map))
            ELSE IF r.ctl = "return_none"
            THEN /\ pc' = "check"
                 /\ board_data' = None
            ELSE /\ pc' = "crashed"
                 /\ UNCHANGED board_data
    /\ UNCHANGED <<runVars, iterVars, archiveVars, column_map, colOutcome>>

\* main(): `if board_data:` ... else: print("No data to process ...")
BranchOnData ==
    /\ pc = "check"
    /\ IF Truthy(board_data)
       THEN /\ pc' = "write"
            /\ UNCHANGED printed
       ELSE /\ pc' = "iter_end"
            /\ printed' = Append(printed, "no_data")
    /\ UNCHANGED <<runVars, iterVars, exportVars, archiveVars, board_data>>

\* main(): df.to_csv(filename, ...)
WriteCsv ==
    /\ pc = "write"
    /\ files' = files \cup {Filename(board_name)}
    /\ steps' = Append(steps, "write")
    /\ printed' = Append(printed, "created_csv")
    /\ pc' = "upload"
    /\ UNCHANGED <<runVars, iterVars, exportVars, board_data, gdrive,
                   uploadOutcome>>

\* variant: the upload error is not caught
UploadToGdrive_Raises ==
    /\ pc = "upload"
    /\ \E ok \in BOOLEAN :
         /\ uploadOutcome' = IF ok THEN "ok" ELSE "failed"
         /\ gdrive' = IF ok THEN Append(gdrive, Filename(board_name)) ELSE gdrive
         /\ printed' = IF ok THEN Append(printed, "upload_ok") ELSE printed
         /\ pc' = IF ok THEN "remove" ELSE "crashed"
    /\ steps' = Append(steps, "upload")
    /\ UNCHANGED <<runVars, iterVars, exportVars, board_data, files>>

\* upload_to_gdrive(): files().create(...).execute(), `except Exception`
UploadToGdrive ==
    /\ pc = "upload"
    /\ \E ok \in BOOLEAN :
         /\ uploadOutcome' = IF ok THEN "ok" ELSE "failed"
         /\ gdrive' = IF ok THEN Append(gdrive, Filename(board_name)) ELSE gdrive
         /\ printed' = Append(printed, IF ok THEN "upload_ok" ELSE "upload_error")
    /\ steps' = Append(steps, "upload")
    /\ pc' = "remove"
    /\ UNCHANGED <<runVars, iterVars, exportVars, board_data, files>>

\* variant: the file is removed only after a successful upload
RemoveFile_AfterSuccessOnly ==
    /\ pc = "remove"
    /\ files' = IF uploadOutcome = "ok" THEN files \ {Filename(board_name)}
                ELSE files
    /\ steps' = Append(steps, "remove")
    /\ pc' = "iter_end"
    /\ UNCHANGED <<runVars, iterVars, exportVars, board_data, gdrive,
                   uploadOutcome, printed>>

\* main(): os.remove(filename)
RemoveFile ==
    /\ pc = "remove"
    /\ files' = files \ {Filename(board_name)}
    /\ steps' = Append(steps, "remove")
    /\ pc' = "iter_end"
    /\ UNCHANGED <<runVars, iterVars, exportVars, board_data, gdrive,
                   uploadOutcome, printed>>

\* main(): the for statement advances to the next board
NextBoard ==
    /\ pc = "iter_end"
    /\ idx' = idx + 1
    /\ pc' = "loop"
    /\ UNCHANGED <<runVars, board_id, board_name, exporterCalls, exportVars,
                   archiveVars, board_data, printed>>

Next ==
    \/ CheckConfig
    \/ Authenticate
    \/ GetAllBoards
    \/ BeginBoard
    \/ FinishRun
    \/ FetchColumns
    \/ FetchItemsPage
    \/ BranchOnData
    \/ WriteCsv
    \/ UploadToGdrive
    \/ RemoveFile
    \/ NextBoard

Spec == Init /\ [][Next]_vars

\* ---------------------------------------------------------------- properties
IdsOf(bs) == [i \in 1..Len(bs) |-> bs[i].id]

\* positions of main() after get_board_data has returned
AfterExport == {"check", "write", "upload", "remove", "iter_end", "loop", "done"}
\* positions of main() where no archive step of the current board is pending
NotArchiving == {"check", "iter_end", "loop", "done"}

ArchiveSteps == <<"write", "upload", "remove">>

\* page numbers of the item-page requests of the current call, in order
ItemRequests == SelectSeq(requests, LAMBDA r : r.kind = "items")
PageNumbers == [i \in 1..Len(ItemRequests) |-> ItemRequests[i].page]

\* the items of a sequence of pages, in page order
RECURSIVE AllItems(_)
AllItems(ps) ==
    IF ps = << >> THEN << >> ELSE Head(ps).items \o AllItems(Tail(ps))

\* the loop is left only through its end
LoopRunsToEnd == pc = "done" /\ boards # << >> => idx = Len(boards) + 1

\* C1 (as stated): when the Lister returned a non-empty list, get_board_data
\* is called exactly once per board, in list order, whatever happened to the
\* other boards: the calls made so far are the ids of the boards reached so
\* far, the run never stops with an unhandled fault, and it ends only after
\* the last board.
C1_Isolation ==
    boards # << >> =>
        /\ pc # "crashed"
        /\ LoopRunsToEnd
        /\ idx \in 1..(Len(boards) + 1)
        /\ exporterCalls =
             SubSeq(IdsOf(boards), 1, IF pc \in {"loop", "done"} THEN idx - 1 ELSE idx)

\* C2 (as stated): at the end of an iteration the archive steps have all run
\* if get_board_data returned a list (the empty list included) and none has
\* run if it returned None.
C2_ArchivedIffNotNone ==
    pc = "iter_end" =>
        IF ~board_data.isNone THEN steps = ArchiveSteps ELSE steps = << >>

\* C2 (amended): a board with zero items yields the empty list, not None; the
\* archive steps run exactly when get_board_data returned a non-empty list,
\* and neither None nor the empty list is archived.
C2_ArchivedIffNonEmpty ==
    /\ pc = "iter_end" =>
         IF ~board_data.isNone /\ Len(board_data.rows) > 0
         THEN steps = ArchiveSteps
         ELSE steps = << >>
    /\ pc \in {"write", "upload", "remove"} =>
         ~board_data.isNone /\ Len(board_data.rows) > 0
    /\ ( /\ pc \in AfterExport
         /\ colOutcome = "ok"
         /\ Len(pages) = Len(ItemRequests)
         /\ AllItems(pages) = << >> ) =>
         ~board_data.isNone /\ board_data.rows = << >>

\* C2 witness: a board with zero items was exported as the empty list and
\* its iteration ended without any archive step
C2_Witness ==
    /\ pc = "iter_end"
    /\ colOutcome = "ok"
    /\ pageOutcome = "ok"
    /\ ~board_data.isNone
    /\ board_data.rows = << >>
    /\ steps = << >>

\* C3 (as stated): once an item page carried an "errors" payload,
\* get_board_data returns None and no archive step runs for the board.
C3_ErrorsPayloadIsFatal ==
    pageOutcome = "errors" =>
        /\ pc \in NotArchiving
        /\ board_data.isNone
        /\ steps = << >>

\* C4: when the column request fails (error payload included), no item page
\* is requested, get_board_data returns None, no file is written or
\* uploaded, and the loop goes on.
C4_ColumnFailure ==
    colOutcome \in FailKinds =>
        /\ pc \in NotArchiving
        /\ board_data.isNone
        /\ requests = << [kind |-> "columns", page |-> 0] >>
        /\ steps = << >>
        /\ files = {}
        /\ LoopRunsToEnd

\* C4 witness: the column request of a board answered with an error payload
\* and the loop went on to the next turn
C4_Witness ==
    /\ colOutcome = "errors"
    /\ pc = "loop"
    /\ idx = 2
    /\ Len(boards) = 2

\* C5: a request error on an item page makes get_board_data return None:
\* the failing request is the last one of the call, the accumulated items
\* are not returned and nothing is archived.
C5_RequestErrorDiscards ==
    pageOutcome \in RequestExceptions =>
        /\ pc \in NotArchiving
        /\ board_data.isNone
        /\ steps = << >>
        /\ files = {}
        /\ requests[Len(requests)] = [kind |-> "items", page |-> page]
        /\ Len(ItemRequests) = page

\* C5 witness: page 2 failed after page 1 had delivered items
C5_Witness ==
    /\ pageOutcome = "http"
    /\ page = 2
    /\ Len(items_data) > 0
    /\ pc = "iter_end"

\* C6: pages are requested as 1, 2, 3, ... each once; when every page was
\* answered successfully the loop stops at the first page k that is empty or
\* has a null cursor, and the rows returned are those of the items of pages
\* 1..k in page order.
C6_Pagination ==
    /\ PageNumbers = [i \in 1..Len(ItemRequests) |-> i]
    /\ pc = "page" => page = Len(ItemRequests) + 1
    /\ ( /\ pc \in AfterExport
         /\ colOutcome = "ok"
         /\ Len(pages) = Len(ItemRequests) ) =>
         LET k == Len(pages) IN
         /\ k >= 1
         /\ \A i \in 1..(k - 1) :
              pages[i].items # << >> /\ pages[i].cursor # "None"
         /\ pages[k].items = << >> \/ pages[k].cursor = "None"
         /\ ~board_data.isNone
         /\ Len(board_data.rows) = Len(AllItems(pages))
         /\ board_data.rows = ProcessedRows(AllItems(pages), column_map)

\* C6 witness: the second page was the last one, non-empty with a null cursor
C6_Witness ==
    /\ pc = "check"
    /\ colOutcome = "ok"
    /\ Len(pages) = 2
    /\ Len(ItemRequests) = 2
    /\ pages[2].items # << >>
    /\ pages[2].cursor = "None"

\* C7: after the upload attempt the local file is removed, whether the upload
\* succeeded or failed; a failed upload is reported and the loop goes on.
C7_RemovedAfterUpload ==
    /\ uploadOutcome # "none" =>
         /\ pc \in {"remove", "iter_end", "loop", "done"}
         /\ pc # "remove" =>
              Filename(board_name) \notin files /\ steps = ArchiveSteps
         /\ LoopRunsToEnd
    /\ uploadOutcome = "failed" =>
         printed[Len(printed)] = "upload_error"

\* C7 witness: the upload failed and the file is gone at the end of the turn
C7_Witness ==
    /\ uploadOutcome = "failed"
    /\ pc = "iter_end"
    /\ files = {}

\* C8 (as stated): whatever the failure of the board-list request, the error
\* is reported, the list is empty and the run ends without a fault, an export,
\* a file or an upload.
C8_ListerFailsSoft ==
    listOutcome \in FailKinds =>
        /\ pc = "done"
        /\ boards = << >>
        /\ printed = <<"boards_error", "no_boards">>
        /\ exporterCalls = << >>
        /\ files = {}
        /\ gdrive = << >>

\* the label of a column value
LabelOf(col_val) == ColumnTitle(column_map, col_val.id)

\* C9 (as stated): the rows returned are one per item, each with the item's
\* id and name and, for every column value, its text under its label.
C9_NoValueDropped ==
    (pc = "check" /\ ~board_data.isNone) =>
        /\ Len(board_data.rows) = Len(items_data)
        /\ \A i \in 1..Len(items_data) :
             LET row == board_data.rows[i]
                 item == items_data[i]
             IN /\ DictGet(row, "Item ID") = item.id
                /\ DictGet(row, "Item Name") = item.name
                /\ \A j \in 1..Len(item.column_values) :
                     /\ DictHas(row, LabelOf(item.column_values[j]))
                     /\ DictGet(row, LabelOf(item.column_values[j]))
                          = item.column_values[j].text

\* C10: at most one export file exists at any time; it exists only between
\* the write and the removal of the current board's file, so none is left
\* when the next board begins or when the run ends.
C10_EphemeralFile ==
    /\ Cardinality(files) <= 1
    /\ files # {} => files = {Filename(board_name)}
    /\ pc \notin {"upload", "remove"} => files = {}

\* C10 witness: the run ended after one upload succeeded and one board was
\* not uploaded, and no file is left
C10_Witness ==
    /\ pc = "done"
    /\ Len(boards) = 2
    /\ Len(gdrive) = 1
    /\ files = {}
====
